---- MODULE Spec2Model ----
(***************************************************************************)
(* turb1600 -- sponge-based hash engine (src/ref/turb1600.py).             *)
(*                                                                         *)
(* Python integers are unbounded and signed.  An integer is modelled as a  *)
(* record [neg, bits] in two's complement with infinite sign extension:    *)
(*   neg = FALSE : the value is the sum of 2^b for b in bits;              *)
(*   neg = TRUE  : the value is the bitwise complement of that sum.        *)
(* The bitwise operators below are the Python operators on that form, so   *)
(* that a value outside [0, 2^64) is representable and a missing mask is   *)
(* visible.  Byte strings are sequences of integers in 0..255; Python's    *)
(* index i is the sequence index i+1.                                      *)
(***************************************************************************)
EXTENDS Integers, Sequences, FiniteSets, TLC

(***************************************************************************)
(* Core parameters                                                         *)
(***************************************************************************)
LANES == 25
BLOCK_BYTES == 136
BLOCK_LANES == BLOCK_BYTES \div 8
ROUNDS_MAIN == 36
ROUNDS_FINAL == 6
OUT_BYTES == 128
WARMUP_ROUNDS == 8

INIT_TAG ==
  << 116, 117, 114, 98, 49, 54, 48, 48, 124, 115, 112, 111, 110, 103, 101,
     124, 49, 54, 48, 48, 124, 49, 48, 56, 56, 124, 53, 49, 50, 124, 49, 48,
     50, 52, 124, 114, 101, 108, 101, 97, 115, 101 >>

(***************************************************************************)
(* Python integers                                                         *)
(***************************************************************************)
Bit(n, k) == (n \div (2 ^ k)) % 2

IntBits(n) == {k \in 0..30 : Bit(n, k) = 1}

PyInt(n) == [neg |-> FALSE, bits |-> IntBits(n)]

\* a function as an explicit table of its values
Force(f) == f @@ << >>

SymDiff(A, B) == (A \ B) \cup (B \ A)

Not(x) == [neg |-> ~x.neg, bits |-> x.bits]

Xor(x, y) == [neg |-> (x.neg # y.neg), bits |-> SymDiff(x.bits, y.bits)]

And(x, y) ==
  IF ~x.neg /\ ~y.neg THEN [neg |-> FALSE, bits |-> x.bits \cap y.bits]
  ELSE IF x.neg /\ ~y.neg THEN [neg |-> FALSE, bits |-> y.bits \ x.bits]
  ELSE IF ~x.neg /\ y.neg THEN [neg |-> FALSE, bits |-> x.bits \ y.bits]
  ELSE [neg |-> TRUE, bits |-> x.bits \cup y.bits]

Or(x, y) ==
  IF ~x.neg /\ ~y.neg THEN [neg |-> FALSE, bits |-> x.bits \cup y.bits]
  ELSE IF x.neg /\ ~y.neg THEN [neg |-> TRUE, bits |-> x.bits \ y.bits]
  ELSE IF ~x.neg /\ y.neg THEN [neg |-> TRUE, bits |-> y.bits \ x.bits]
  ELSE [neg |-> TRUE, bits |-> x.bits \cap y.bits]

Shl(x, r) ==
  [neg |-> x.neg,
   bits |-> {b + r : b \in x.bits} \cup (IF x.neg THEN 0..(r - 1) ELSE {})]

Shr(x, r) == [neg |-> x.neg, bits |-> {b - r : b \in {c \in x.bits : c >= r}}]

MASK == [neg |-> FALSE, bits |-> 0..63]

\* int.from_bytes(bs, "big")
from_bytes_big(bs) ==
  [neg |-> FALSE,
   bits |-> UNION {{8 * (Len(bs) - j) + k : k \in IntBits(bs[j])}
                     : j \in 1..Len(bs)}]

\* int.from_bytes(bs, "little")
from_bytes(bs) ==
  [neg |-> FALSE,
   bits |-> UNION {{8 * (j - 1) + k : k \in IntBits(bs[j])} : j \in 1..Len(bs)}]

\* x lies in [0, 2^(8n)): the values int.to_bytes(n, "little") accepts
Fits(x, n) == ~x.neg /\ \A b \in x.bits : b < 8 * n

\* the byte whose set bits are B
ByteVal(B) ==
  LET w(k) == IF k \in B THEN 2 ^ k ELSE 0
  IN  w(0) + w(1) + w(2) + w(3) + w(4) + w(5) + w(6) + w(7)

ByteOr(a, b) == ByteVal(IntBits(a) \cup IntBits(b))

ByteAt(x, j) == ByteVal({k \in 0..7 : (8 * j + k) \in x.bits})

\* x.to_bytes(n, "big")
to_bytes_big(x, n) == [j \in 1..n |-> ByteAt(x, n - j)]

\* x.to_bytes(n, "little") for a value that fits
to_bytes(x, n) == [j \in 1..n |-> ByteAt(x, j - 1)]

\* the 8-bit limbs of x in [0, 2^64), least significant first, from index 0
Limbs(x) == Force([i \in 0..7 |-> ByteAt(x, i)])

\* column k of the schoolbook product of two lists of 8 limbs
MulCol(a, b, k) ==
  LET m(i) == IF (k - i) \in 0..7 THEN a[i] * b[k - i] ELSE 0
  IN  m(0) + m(1) + m(2) + m(3) + m(4) + m(5) + m(6) + m(7)

\* the limbs k, k+1, ..., 15 of the product, given the carry into column k
RECURSIVE MulFrom(_, _, _, _)
MulFrom(a, b, k, carry) ==
  IF k > 15 THEN << >>
  ELSE LET t == MulCol(a, b, k) + carry
       IN  <<t % 256>> \o MulFrom(a, b, k + 1, t \div 256)

\* x * y for x, y in [0, 2^64): all 128 bits of the product
Mul(x, y) == from_bytes(MulFrom(Limbs(x), Limbs(y), 0, 0))

(***************************************************************************)
(* Rotation helpers                                                        *)
(***************************************************************************)
rol(x, r) == And(Or(Shl(x, r), Shr(x, 64 - r)), MASK)

rot_offset(round_, base) == (base + ((round_ * 13) % 64)) % 64

(***************************************************************************)
(* Round constant                                                          *)
(***************************************************************************)
K_A5 == from_bytes(<<165, 165, 165, 165, 165, 165, 165, 165>>)
K_MUL1 == from_bytes(<<79, 235, 212, 39, 61, 174, 178, 194>>)
K_MUL2 == from_bytes(<<249, 121, 55, 158, 177, 103, 86, 22>>)

\* x ^= x >> n
XorShr(x, n) == Xor(x, Shr(x, n))

\* x = (x * k) & MASK
MulMask(x, k) == And(Mul(x, k), MASK)

round_constant(idx) ==
  And(XorShr(MulMask(XorShr(MulMask(XorShr(
        Xor(Xor(PyInt(idx), K_A5), rol(PyInt(idx), 23)),
        33), K_MUL1), 29), K_MUL2), 32), MASK)

(***************************************************************************)
(* Permutation tables (index i of the source is index i here)              *)
(***************************************************************************)
Table(s) == [i \in 0..(Len(s) - 1) |-> s[i + 1]]

ROT_TABLE ==
  Table(<< 0, 1, 62, 28, 27, 36, 44, 6, 55, 20, 3, 10, 43, 25, 39,
           41, 45, 15, 21, 8, 18, 2, 61, 56, 14 >>)

\* a table that sends lanes 0 and 24 to the same place
PERM_TABLE_dup ==
  Table(<< 0, 7, 14, 21, 3, 10, 17, 24, 6, 13, 20, 2, 9, 16, 23,
           5, 12, 19, 1, 8, 15, 22, 4, 11, 0 >>)

PERM_TABLE ==
  Table(<< 0, 7, 14, 21, 3, 10, 17, 24, 6, 13, 20, 2, 9, 16, 23,
           5, 12, 19, 1, 8, 15, 22, 4, 11, 18 >>)

(***************************************************************************)
(* Byte strings                                                            *)
(***************************************************************************)
Min(a, b) == IF a < b THEN a ELSE b

\* s[a:b] for 0 <= a
Slice(s, a, b) == SubSeq(s, a + 1, Min(b, Len(s)))

Zeros(n) == [j \in 1..n |-> 0]

(***************************************************************************)
(* Core functions                                                          *)
(***************************************************************************)
\* absorb_block reading the words most significant byte first
absorb_block_big(state, block) ==
  [i \in 0..(LANES - 1) |->
     IF i < BLOCK_LANES
     THEN Xor(state[i], from_bytes_big(Slice(block, i * 8, (i + 1) * 8)))
     ELSE state[i]]

absorb_block(state, block) ==
  [i \in 0..(LANES - 1) |->
     IF i < BLOCK_LANES
     THEN Xor(state[i], from_bytes(Slice(block, i * 8, (i + 1) * 8)))
     ELSE state[i]]

\* Column mix (theta)
theta(state) ==
  LET c == Force([x \in 0..4 |->
                    Xor(Xor(Xor(Xor(state[x], state[x + 5]), state[x + 10]),
                            state[x + 15]), state[x + 20])])
      d == Force(Table(<< Xor(c[4], rol(c[1], 1)), Xor(c[0], rol(c[2], 1)),
                          Xor(c[1], rol(c[3], 1)), Xor(c[2], rol(c[4], 1)),
                          Xor(c[3], rol(c[0], 1)) >>))
  IN  Force([i \in 0..(LANES - 1) |-> Xor(state[i], d[i % 5])])

\* Rho + Pi: the loop body for lanes i, i+1, ..., LANES-1, writing into tmp
RECURSIVE rho_pi(_, _, _, _)
rho_pi(state, tmp, round_, i) ==
  IF i >= LANES THEN tmp
  ELSE rho_pi(state,
              [tmp EXCEPT ![PERM_TABLE[i]] =
                            rol(state[i], rot_offset(round_, ROT_TABLE[i]))],
              round_, i + 1)

\* Chi written without the row snapshot: a later update of the row reads
\* the lanes the earlier updates have written
chi_row_inplace(state, i) ==
  LET s0 == [state EXCEPT ![i] =
               And(Xor(@, And(Not(state[i + 1]), state[i + 2])), MASK)]
      s1 == [s0 EXCEPT ![i + 1] =
               And(Xor(@, And(Not(s0[i + 2]), s0[i + 3])), MASK)]
      s2 == [s1 EXCEPT ![i + 2] =
               And(Xor(@, And(Not(s1[i + 3]), s1[i + 4])), MASK)]
      s3 == [s2 EXCEPT ![i + 3] =
               And(Xor(@, And(Not(s2[i + 4]), s2[i])), MASK)]
  IN  [s3 EXCEPT ![i + 4] = And(Xor(@, And(Not(s3[i]), s3[i + 1])), MASK)]

\* Chi on the row that starts at lane i
chi_row(state, i) ==
  LET a == state[i]
      b == state[i + 1]
      c == state[i + 2]
      d == state[i + 3]
      e == state[i + 4]
  IN  [state EXCEPT ![i]     = And(Xor(@, And(Not(b), c)), MASK),
                    ![i + 1] = And(Xor(@, And(Not(c), d)), MASK),
                    ![i + 2] = And(Xor(@, And(Not(d), e)), MASK),
                    ![i + 3] = And(Xor(@, And(Not(e), a)), MASK),
                    ![i + 4] = And(Xor(@, And(Not(a), b)), MASK)]

RECURSIVE chi(_, _)
chi(state, i) ==
  IF i >= LANES THEN state ELSE chi(chi_row(state, i), i + 5)

iota(state, round_) ==
  [state EXCEPT ![(round_ * 7) % LANES] = Xor(@, round_constant(round_))]

\* permute mutates both lists; the result is the pair of their final values
permute(state, tmp, round_) ==
  LET t == rho_pi(theta(state), tmp, round_, 0)
  IN  [state |-> iota(chi(t, 0), round_), tmp |-> t]

\* block[:n] = src[:n] on a bytearray: the first n bytes are replaced by src[:n]
SetPrefix(block, n, src) == Slice(src, 0, n) \o Slice(block, n, Len(block))

\* the marker writes with the terminator assigned: block[-1] = 0x80
pad_marks_assign(block, at) ==
  LET marked == [block EXCEPT ![at + 1] = 1]
  IN  [marked EXCEPT ![Len(marked)] = 128]

\* the marker writes without the 0x01 marker
pad_marks_nomark(block, at) == [block EXCEPT ![Len(block)] = ByteOr(@, 128)]

\* the marker writes: block[at] = 0x01, then block[-1] |= 0x80
pad_marks(block, at) ==
  LET marked == [block EXCEPT ![at + 1] = 1]
  IN  [marked EXCEPT ![Len(marked)] = ByteOr(@, 128)]

\* seed_state without its warm-up loop: the tag block absorbed into zeros
seed_block ==
  LET n == Min(Len(INIT_TAG), BLOCK_BYTES)
  IN  pad_marks(SetPrefix(Zeros(BLOCK_BYTES), n, INIT_TAG), n)

\* the final block of turb1600_hash for the bytes left at pos
final_block(msg, pos_) ==
  LET rem == Len(msg) - pos_
  IN  pad_marks(SetPrefix(Zeros(BLOCK_BYTES), rem, Slice(msg, pos_, Len(msg))),
                rem)

\* the blocks turb1600_hash absorbs for msg from position pos_ on
RECURSIVE blocks_of(_, _)
blocks_of(msg, pos_) ==
  IF pos_ + BLOCK_BYTES <= Len(msg)
  THEN <<Slice(msg, pos_, pos_ + BLOCK_BYTES)>>
         \o blocks_of(msg, pos_ + BLOCK_BYTES)
  ELSE <<final_block(msg, pos_)>>

\* state[-1] = ~state[-1]
flip_not(state) == [state EXCEPT ![LANES - 1] = Not(@)]

\* state[-1] ^= MASK
flip(state) == [state EXCEPT ![LANES - 1] = Xor(@, MASK)]

\* the extraction loop without its test of the buffer length
RECURSIVE extract_nobreak(_, _, _)
extract_nobreak(state, out_, i) ==
  IF i >= BLOCK_LANES THEN out_
  ELSE extract_nobreak(state, out_ \o to_bytes(state[i], 8), i + 1)

\* the extraction loop of one squeeze iteration, from lane i on
RECURSIVE extract(_, _, _)
extract(state, out_, i) ==
  IF i >= BLOCK_LANES \/ Len(out_) >= OUT_BYTES THEN out_
  ELSE extract(state, out_ \o to_bytes(state[i], 8), i + 1)

\* to_bytes raises OverflowError on a lane the extraction loop reads
RECURSIVE extract_raises(_, _, _)
extract_raises(state, out_, i) ==
  IF i >= BLOCK_LANES \/ Len(out_) >= OUT_BYTES THEN FALSE
  ELSE ~Fits(state[i], 8)
       \/ extract_raises(state, out_ \o to_bytes(state[i], 8), i + 1)

(***************************************************************************)
(* Inputs                                                                  *)
(***************************************************************************)
MaxBlocks == 2   \* full blocks of leading zero bytes
MaxSlack == 2    \* how far below a block boundary the zero bytes may stop
MaxVar == 1      \* free bytes after the zero bytes
MaxShort == 0    \* longest short message of the two-invocation runs

\* 0x00, the 0x01 marker and the 0x80 terminator are the bytes padding writes
Alphabet == {0, 1, 128}

Suffixes == UNION {[1..n -> Alphabet] : n \in 0..MaxVar}

ZeroRuns ==
  {0} \cup {b * BLOCK_BYTES - j : b \in 1..MaxBlocks, j \in 0..MaxSlack}

\* messages of lengths 0.., and around each block boundary
Msgs == {Zeros(z) \o s : z \in ZeroRuns, s \in Suffixes}

DualMsgs == {Zeros(BLOCK_BYTES)} \cup {Zeros(n) : n \in 0..MaxShort}

Procs == {1, 2}

(***************************************************************************)
(* State: the locals of each invocation of turb1600_hash, and two logs     *)
(***************************************************************************)
VARIABLES
  pc,        \* position of each invocation
  data,      \* the message
  state,     \* the 25 lanes
  tmp,       \* the scratch lanes
  r,         \* loop variable of the warm-up loop of seed_state
  round_,    \* the main round counter
  pos,       \* bytes of the message consumed by full blocks
  cnt,       \* iterations done of the current `for _ in range(...)` loop
  out,       \* the output buffer
  digest,    \* the returned bytes
  absorbed,  \* log: the blocks turb1600_hash passed to absorb_block
  perms      \* log: one entry per call of permute

vars == <<pc, data, state, tmp, r, round_, pos, cnt, out, digest, absorbed,
          perms>>

ZeroLanes == [i \in 0..(LANES - 1) |-> PyInt(0)]

Locals0 ==
  /\ state = [p \in Procs |-> ZeroLanes]
  /\ tmp = [p \in Procs |-> ZeroLanes]
  /\ r = [p \in Procs |-> 0]
  /\ round_ = [p \in Procs |-> 0]
  /\ pos = [p \in Procs |-> 0]
  /\ cnt = [p \in Procs |-> 0]
  /\ out = [p \in Procs |-> << >>]
  /\ digest = [p \in Procs |-> << >>]
  /\ absorbed = [p \in Procs |-> << >>]
  /\ perms = [p \in Procs |-> << >>]

\* one invocation
Init ==
  /\ pc = [p \in Procs |-> IF p = 1 THEN "call" ELSE "idle"]
  /\ \E m \in Msgs : data = [p \in Procs |-> IF p = 1 THEN m ELSE << >>]
  /\ Locals0

\* two invocations, interleaved in every order (the shorter message is
\* given to invocation 1: the two are interchangeable)
InitDual ==
  /\ pc = [p \in Procs |-> "call"]
  /\ data \in [Procs -> DualMsgs]
  /\ Len(data[1]) <= Len(data[2])
  /\ Locals0

LogPerm(p, phase, idx) ==
  Append(perms[p], [phase |-> phase, idx |-> idx, blocks |-> Len(absorbed[p])])

\* lines 121-122 and 105-111: allocate tmp and state, absorb the tag block
SeedAbsorb(p) ==
  /\ pc[p] = "call"
  /\ tmp' = [tmp EXCEPT ![p] = ZeroLanes]
  /\ state' = [state EXCEPT ![p] = Force(absorb_block(ZeroLanes, seed_block))]
  /\ r' = [r EXCEPT ![p] = 0]
  /\ pc' = [pc EXCEPT ![p] = "seed"]
  /\ UNCHANGED <<data, round_, pos, cnt, out, digest, absorbed, perms>>

\* lines 112-113: one warm-up round
SeedPermute(p) ==
  /\ pc[p] = "seed"
  /\ r[p] < WARMUP_ROUNDS
  /\ LET res == permute(state[p], tmp[p], r[p])
     IN  /\ state' = [state EXCEPT ![p] = res.state]
         /\ tmp' = [tmp EXCEPT ![p] = res.tmp]
  /\ perms' = [perms EXCEPT ![p] = LogPerm(p, "seed", r[p])]
  /\ r' = [r EXCEPT ![p] = @ + 1]
  /\ UNCHANGED <<pc, data, round_, pos, cnt, out, digest, absorbed>>

\* seed_state returns and the round counter goes on from the warm-up's
SeedReturn_continue(p) ==
  /\ pc[p] = "seed"
  /\ r[p] >= WARMUP_ROUNDS
  /\ round_' = [round_ EXCEPT ![p] = r[p]]
  /\ pos' = [pos EXCEPT ![p] = 0]
  /\ pc' = [pc EXCEPT ![p] = "absorb"]
  /\ UNCHANGED <<data, state, tmp, r, cnt, out, digest, absorbed, perms>>

\* seed_state returns and the round counter is one counter of the module,
\* which every invocation advances and none resets
SeedReturn_shared(p) ==
  /\ pc[p] = "seed"
  /\ r[p] >= WARMUP_ROUNDS
  /\ round_' = [round_ EXCEPT ![p] =
                  CHOOSE m \in {round_[q] : q \in Procs} :
                    \A q \in Procs : round_[q] <= m]
  /\ pos' = [pos EXCEPT ![p] = 0]
  /\ pc' = [pc EXCEPT ![p] = "absorb"]
  /\ UNCHANGED <<data, state, tmp, r, cnt, out, digest, absorbed, perms>>

\* lines 114, 123-124: seed_state returns; round_ = 0, pos = 0
SeedReturn(p) ==
  /\ pc[p] = "seed"
  /\ r[p] >= WARMUP_ROUNDS
  /\ round_' = [round_ EXCEPT ![p] = 0]
  /\ pos' = [pos EXCEPT ![p] = 0]
  /\ pc' = [pc EXCEPT ![p] = "absorb"]
  /\ UNCHANGED <<data, state, tmp, r, cnt, out, digest, absorbed, perms>>

\* lines 127-128: the loop test holds; absorb the next full block
AbsorbFull(p) ==
  /\ pc[p] = "absorb"
  /\ pos[p] + BLOCK_BYTES <= Len(data[p])
  /\ LET block == Slice(data[p], pos[p], pos[p] + BLOCK_BYTES)
     IN  /\ state' = [state EXCEPT ![p] = Force(absorb_block(@, block))]
         /\ absorbed' = [absorbed EXCEPT ![p] = Append(@, block)]
  /\ cnt' = [cnt EXCEPT ![p] = 0]
  /\ pc' = [pc EXCEPT ![p] = "main"]
  /\ UNCHANGED <<data, tmp, r, round_, pos, out, digest, perms>>

\* lines 129-131: one main round
MainPermute(p) ==
  /\ pc[p] = "main"
  /\ cnt[p] < ROUNDS_MAIN
  /\ LET res == permute(state[p], tmp[p], round_[p])
     IN  /\ state' = [state EXCEPT ![p] = res.state]
         /\ tmp' = [tmp EXCEPT ![p] = res.tmp]
  /\ perms' = [perms EXCEPT ![p] = LogPerm(p, "main", round_[p])]
  /\ round_' = [round_ EXCEPT ![p] = @ + 1]
  /\ cnt' = [cnt EXCEPT ![p] = @ + 1]
  /\ UNCHANGED <<pc, data, r, pos, out, digest, absorbed>>

\* line 132: pos += BLOCK_BYTES
AdvancePos(p) ==
  /\ pc[p] = "main"
  /\ cnt[p] >= ROUNDS_MAIN
  /\ pos' = [pos EXCEPT ![p] = @ + BLOCK_BYTES]
  /\ pc' = [pc EXCEPT ![p] = "absorb"]
  /\ UNCHANGED <<data, state, tmp, r, round_, cnt, out, digest, absorbed, perms>>

\* lines 135-140: the loop test fails; build and absorb the final block.
\* tail[rem] = 0x01 raises IndexError when rem is not an index of tail.
FinalBlock(p) ==
  /\ pc[p] = "absorb"
  /\ ~(pos[p] + BLOCK_BYTES <= Len(data[p]))
  /\ IF Len(data[p]) - pos[p] \in 0..(BLOCK_BYTES - 1)
     THEN LET tail == final_block(data[p], pos[p])
          IN  /\ state' = [state EXCEPT ![p] = Force(absorb_block(@, tail))]
              /\ absorbed' = [absorbed EXCEPT ![p] = Append(@, tail)]
              /\ cnt' = [cnt EXCEPT ![p] = 0]
              /\ pc' = [pc EXCEPT ![p] = "final"]
     ELSE /\ pc' = [pc EXCEPT ![p] = "raised"]
          /\ UNCHANGED <<state, absorbed, cnt>>
  /\ UNCHANGED <<data, tmp, r, round_, pos, out, digest, perms>>

\* lines 142-144: one finalization round
FinalPermute(p) ==
  /\ pc[p] = "final"
  /\ cnt[p] < ROUNDS_MAIN + ROUNDS_FINAL
  /\ LET res == permute(state[p], tmp[p], round_[p])
     IN  /\ state' = [state EXCEPT ![p] = res.state]
         /\ tmp' = [tmp EXCEPT ![p] = res.tmp]
  /\ perms' = [perms EXCEPT ![p] = LogPerm(p, "final", round_[p])]
  /\ round_' = [round_ EXCEPT ![p] = @ + 1]
  /\ cnt' = [cnt EXCEPT ![p] = @ + 1]
  /\ UNCHANGED <<pc, data, r, pos, out, digest, absorbed>>

\* line 147: out = bytearray()
SqueezeEnter(p) ==
  /\ pc[p] = "final"
  /\ cnt[p] >= ROUNDS_MAIN + ROUNDS_FINAL
  /\ out' = [out EXCEPT ![p] = << >>]
  /\ pc' = [pc EXCEPT ![p] = "squeeze"]
  /\ UNCHANGED <<data, state, tmp, r, round_, pos, cnt, digest, absorbed, perms>>

\* lines 148-153: the loop test holds; flip lane 24 and extract rate lanes
SqueezeExtract(p) ==
  /\ pc[p] = "squeeze"
  /\ Len(out[p]) < OUT_BYTES
  /\ LET flipped == flip(state[p])
     IN  /\ state' = [state EXCEPT ![p] = flipped]
         /\ IF extract_raises(flipped, out[p], 0)
            THEN /\ pc' = [pc EXCEPT ![p] = "raised"]
                 /\ UNCHANGED out
            ELSE /\ pc' = [pc EXCEPT ![p] = "squeezed"]
                 /\ out' = [out EXCEPT ![p] = extract(flipped, @, 0)]
  /\ UNCHANGED <<data, tmp, r, round_, pos, cnt, digest, absorbed, perms>>

\* lines 154-155: the round that ends a squeeze iteration
SqueezePermute(p) ==
  /\ pc[p] = "squeezed"
  /\ LET res == permute(state[p], tmp[p], round_[p])
     IN  /\ state' = [state EXCEPT ![p] = res.state]
         /\ tmp' = [tmp EXCEPT ![p] = res.tmp]
  /\ perms' = [perms EXCEPT ![p] = LogPerm(p, "squeeze", round_[p])]
  /\ round_' = [round_ EXCEPT ![p] = @ + 1]
  /\ pc' = [pc EXCEPT ![p] = "squeeze"]
  /\ UNCHANGED <<data, r, pos, cnt, out, digest, absorbed>>

\* line 157: the loop test fails; return bytes(out[:OUT_BYTES])
Return(p) ==
  /\ pc[p] = "squeeze"
  /\ ~(Len(out[p]) < OUT_BYTES)
  /\ digest' = [digest EXCEPT ![p] = Slice(out[p], 0, OUT_BYTES)]
  /\ pc' = [pc EXCEPT ![p] = "done"]
  /\ UNCHANGED <<data, state, tmp, r, round_, pos, cnt, out, absorbed, perms>>

Next ==
  \E p \in Procs :
    \/ SeedAbsorb(p)
    \/ SeedPermute(p)
    \/ SeedReturn(p)
    \/ AbsorbFull(p)
    \/ MainPermute(p)
    \/ AdvancePos(p)
    \/ FinalBlock(p)
    \/ FinalPermute(p)
    \/ SqueezeEnter(p)
    \/ SqueezeExtract(p)
    \/ SqueezePermute(p)
    \/ Return(p)

Spec == Init /\ [][Next]_vars

SpecDual == InitDual /\ [][Next]_vars

(***************************************************************************)
(* Properties                                                              *)
(***************************************************************************)
LocalsOf(p) ==
  <<pc[p], data[p], state[p], tmp[p], r[p], round_[p], pos[p], cnt[p],
    out[p], digest[p], absorbed[p], perms[p]>>

Started(p) == pc[p] \notin {"idle", "call"}

Padded(p) == pc[p] \in {"final", "squeeze", "squeezed", "done"}

FullBlocks(p) == Len(data[p]) \div 136

Terminal(p) == pc[p] \in {"idle", "done"}

\* the positions with a step: one action where the code runs straight on,
\* two with complementary loop tests where it branches
CanStep(p) ==
  pc[p] \in {"call", "seed", "absorb", "main", "final", "squeeze", "squeezed"}

\* a bound on the steps an invocation has left
StepsLeft(p) ==
  LET squeezing == 2 * (128 - Len(out[p]))
      finishing == 42 + 1 + 2 * 128 + 1
      absorbing(at) == 38 * ((Len(data[p]) - at) \div 136) + 1 + finishing
  IN  CASE pc[p] = "call" -> 1 + 8 + 1 + absorbing(0)
        [] pc[p] = "seed" -> (8 - r[p]) + 1 + absorbing(0)
        [] pc[p] = "absorb" -> absorbing(pos[p])
        [] pc[p] = "main" -> (36 - cnt[p]) + 1 + absorbing(pos[p] + 136)
        [] pc[p] = "final" -> (42 - cnt[p]) + 1 + 2 * 128 + 1
        [] pc[p] = "squeeze" -> squeezing + 1
        [] pc[p] = "squeezed" -> squeezing + 2
        [] OTHER -> 0

C1_Safe ==
  \A p \in Procs :
    /\ pc[p] # "raised"
    /\ Len(out[p]) <= 128
    /\ pc[p] = "done" => Len(digest[p]) = 128
    /\ Terminal(p) \/ CanStep(p)
    /\ StepsLeft(p) >= 0

C1_Progress ==
  \A p \in Procs : LocalsOf(p)' # LocalsOf(p) => StepsLeft(p)' < StepsLeft(p)

\* C1: for every message, of any length including 0, turb1600_hash raises
\* no error, the output buffer never holds more than 128 bytes, and what is
\* returned is exactly 128 bytes; the call returns: at every position but the
\* last a step is possible, and every step lowers a bound on the steps left.
C1_Total == []C1_Safe /\ [][C1_Progress]_vars

\* the empty message has been hashed
C1_Witness ==
  /\ pc[1] = "done"
  /\ data[1] = << >>
  /\ Len(out[1]) = 128
  /\ Len(digest[1]) = 128

C2_SameDigest ==
  \A p, q \in Procs :
    data[p] = data[q] =>
      /\ (pc[p] = "done" /\ pc[q] = "done") => digest[p] = digest[q]
      /\ (pc[p] = pc[q] /\ Len(perms[p]) = Len(perms[q]))
           => LocalsOf(p) = LocalsOf(q)

C2_Frame == \E p \in Procs : \A q \in Procs \ {p} : LocalsOf(q)' = LocalsOf(q)

\* C2: the digest is a function of the message alone: two invocations on
\* the same message, interleaved step by step in any order with each other
\* or with an invocation on another message, hold the same locals whenever
\* they stand at the same position after the same number of rounds, and
\* return the same bytes; a step of one invocation leaves every local of the
\* other invocation unchanged.
C2_Deterministic == []C2_SameDigest /\ [][C2_Frame]_vars

\* two invocations on the same one-block message have both returned
C2_Witness ==
  /\ pc[1] = "done"
  /\ pc[2] = "done"
  /\ data[1] = data[2]
  /\ Len(data[1]) = 136
  /\ Len(digest[1]) = 128
  /\ digest[1] = digest[2]

\* the final block the claim describes, byte by byte
ExpectedFinal(msg) ==
  LET full == Len(msg) \div 136
      rem == Len(msg) % 136
  IN  [j \in 1..136 |->
         IF j - 1 < rem THEN msg[136 * full + j]
         ELSE IF j - 1 = rem THEN (IF rem = 135 THEN 129 ELSE 1)
         ELSE IF j - 1 = 135 THEN 128
         ELSE 0]

\* C3: a message of length n is absorbed as floor(n/136) full blocks of
\* message bytes followed by exactly one final block L with rem = n mod 136:
\* L[0..rem) are the remaining message bytes, L[rem] = 0x01, L[135] has the
\* 0x80 bit (0x81 when rem = 135), and every other byte is 0.
C3_Blocks ==
  \A p \in Procs :
    /\ Len(absorbed[p]) <= FullBlocks(p) + 1
    /\ \A b \in 1..Len(absorbed[p]) :
         b <= FullBlocks(p) =>
           absorbed[p][b] = [j \in 1..136 |-> data[p][136 * (b - 1) + j]]
    /\ Padded(p) =>
         /\ Len(absorbed[p]) = FullBlocks(p) + 1
         /\ absorbed[p][FullBlocks(p) + 1] = ExpectedFinal(data[p])

\* one full block and a final block with rem = 135 have been absorbed
C3_Witness ==
  /\ pc[1] = "done"
  /\ Len(data[1]) = 136 + 135
  /\ Len(absorbed[1]) = 2
  /\ absorbed[1][2][136] = 129

\* the calls of permute the claim describes, for a message of length n
ExpectedPerms(n) ==
  LET full == n \div 136
  IN  [i \in 1..(8 + 36 * full + 43) |->
         IF i <= 8 THEN [phase |-> "seed", idx |-> i - 1, blocks |-> 0]
         ELSE LET m == i - 9
              IN  IF m < 36 * full
                  THEN [phase |-> "main", idx |-> m, blocks |-> m \div 36 + 1]
                  ELSE IF m < 36 * full + 42
                  THEN [phase |-> "final", idx |-> m, blocks |-> full + 1]
                  ELSE [phase |-> "squeeze", idx |-> m, blocks |-> full + 1]]

\* C4: permute receives the indices 0..7 in the warm-up, then the main
\* counter restarts at 0 and the later calls receive 0, 1, 2, ... without gap
\* or repeat: 36 after each full block, 42 after the final block, 1 after the
\* extraction, 36 * floor(n/136) + 43 in all.
C4_Rounds ==
  \A p \in Procs :
    LET want == ExpectedPerms(Len(data[p]))
    IN  /\ Len(perms[p]) <= Len(want)
        /\ perms[p] = SubSeq(want, 1, Len(perms[p]))
        /\ pc[p] = "done" =>
             /\ perms[p] = want
             /\ round_[p] = 36 * FullBlocks(p) + 43

\* a message of two full blocks has been hashed
C4_Witness ==
  /\ pc[1] = "done"
  /\ Len(data[1]) = 2 * 136
  /\ Len(perms[1]) = 8 + 72 + 43
  /\ round_[1] = 115

\* the 8-byte little-endian encodings of lanes 0..15, in lane order
LittleEndian16(lanes) ==
  [j \in 1..128 |->
     LET lane == lanes[(j - 1) \div 8]
         byte == (j - 1) % 8
     IN  ByteVal({k \in 0..7 : (8 * byte + k) \in lane.bits})]

SqueezeRounds(p) ==
  Cardinality({i \in 1..Len(perms[p]) : perms[p][i].phase = "squeeze"})

C5_Step ==
  \A p \in Procs :
    /\ (pc[p] = "squeeze" /\ pc'[p] = "squeezed") =>
         /\ Len(perms[p]) = 8 + 36 * FullBlocks(p) + 42
         /\ \A i \in 0..23 : state'[p][i] = state[p][i]
         /\ state'[p][24].neg = FALSE
         /\ state'[p][24].bits = (0..63) \ state[p][24].bits
         /\ out'[p] = LittleEndian16(state'[p])
    /\ pc[p] = "squeezed" => out'[p] = out[p]
    /\ (pc[p] = "squeeze" /\ pc'[p] = "done") =>
         /\ digest'[p] = out[p]
         /\ SqueezeRounds(p) = 1

\* C5: the squeeze loop runs one iteration; it starts after the 42
\* finalization rounds, flips every bit of lane 24 and fills the buffer with
\* the 8-byte little-endian encodings of lanes 0..15 in lane order (lane 16
\* is not read); the round that follows leaves the buffer alone and the
\* digest is that buffer.
C5_Squeeze == [][C5_Step]_vars

\* a digest has been returned after one squeeze iteration
C5_Witness ==
  /\ pc[1] = "done"
  /\ SqueezeRounds(1) = 1
  /\ digest[1] = out[1]
  /\ Len(digest[1]) = 128
  /\ \E j \in 1..128 : digest[1][j] # 0

\* C6: whenever the state is observed between operations, each of the 25
\* lanes is an integer in [0, 2^64): not negative, no bit above bit 63.
C6_Canonical ==
  \A p \in Procs : \A i \in 0..24 :
    /\ state[p][i].neg = FALSE
    /\ state[p][i].bits \subseteq 0..63

\* lane 24 has just been flipped, after every kind of operation has run
C6_Witness ==
  /\ pc[1] = "squeezed"
  /\ 63 \in state[1][24].bits
  /\ \A i \in 0..24 : state[1][i].bits # {}

\* the little-endian 64-bit word of block[8i..8i+8)
WordLE(block, i) ==
  [neg |-> FALSE,
   bits |-> {b \in 0..63 : Bit(block[8 * i + b \div 8 + 1], b % 8) = 1}]

AbsorbEffect(old, new, block) ==
  /\ Len(block) = 136
  /\ \A i \in 0..16 :
       /\ new[i].neg = old[i].neg
       /\ new[i].bits = SymDiff(old[i].bits, WordLE(block, i).bits)
  /\ \A i \in 17..24 : new[i] = old[i]

C7_Step ==
  \A p \in Procs :
    /\ Len(absorbed'[p]) = Len(absorbed[p]) + 1 =>
         AbsorbEffect(state[p], state'[p], absorbed'[p][Len(absorbed'[p])])
    /\ (pc[p] = "call" /\ pc'[p] = "seed") =>
         AbsorbEffect(ZeroLanes, state'[p], seed_block)

\* C7: absorb_block XORs into each rate lane i in 0..16 the little-endian
\* 64-bit word of block[8i..8i+8) and leaves the capacity lanes 17..24
\* unchanged.
C7_AbsorbFrame == [][C7_Step]_vars

\* a final block has just been absorbed into a state with non-zero capacity
C7_Witness ==
  /\ pc[1] = "final"
  /\ cnt[1] = 0
  /\ Len(absorbed[1]) = 2
  /\ \E i \in 17..24 : state[1][i].bits # {}

\* chi as five parallel updates per row
ChiParallel(S) ==
  [i \in 0..24 |->
     LET y == i \div 5
         k == i % 5
     IN  Xor(S[i], And(Not(S[5 * y + ((k + 1) % 5)]),
                       S[5 * y + ((k + 2) % 5)]))]

C8_Step ==
  \A p \in Procs :
    Len(perms'[p]) = Len(perms[p]) + 1 =>
      LET idx == perms'[p][Len(perms'[p])].idx
          want == ChiParallel(tmp'[p])
      IN  \A i \in 0..24 :
            state'[p][i] = IF i = (idx * 7) % 25
                           THEN Xor(want[i], round_constant(idx))
                           ELSE want[i]

\* C8: chi is the parallel row update: every lane of the state a round
\* returns is the pre-chi lane XOR ((NOT next lane of the row) AND the lane
\* after it), all three read before any write of the stage, followed by iota.
\* (The scratch list holds the pre-chi lanes when the round returns.)
C8_ChiSnapshot == [][C8_Step]_vars

\* a main round has run in which chi changed the first lane of a row, a lane
\* that later updates of the row read
C8_Witness ==
  /\ pc[1] = "main"
  /\ cnt[1] = 1
  /\ \E y \in 0..4 : ChiParallel(tmp[1])[5 * y] # tmp[1][5 * y]

OtherScratch == {ZeroLanes, [i \in 0..24 |-> MASK]}

\* the round index the next call of permute receives
NextIndex(p) == IF pc[p] = "seed" THEN r[p] ELSE round_[p]

\* C9: the state a round produces does not depend on what the scratch list
\* held before the call: from an all-zero or an all-one scratch list the next
\* round yields the state it yields from the scratch list as it is.
C9_ScratchUnobservable ==
  \A p \in Procs :
    Started(p) =>
      \A T \in OtherScratch :
        permute(state[p], T, NextIndex(p)).state
          = permute(state[p], tmp[p], NextIndex(p)).state

\* the first main round is about to run on the scratch list of the warm-up
C9_Witness ==
  /\ pc[1] = "main"
  /\ cnt[1] = 0
  /\ tmp[1] \notin OtherScratch
  /\ Len(perms[1]) = 8

RECURSIVE Concat(_)
Concat(blocks) ==
  IF blocks = << >> THEN << >> ELSE Head(blocks) \o Concat(Tail(blocks))

\* the length of the message part of a final block (136: no marker found)
MarkAt(L) ==
  LET last(m) == L[m + 1] # 0 /\ \A j \in (m + 1)..134 : L[j + 1] = 0
  IN  IF L[136] = 129 THEN 135
      ELSE IF \E m \in 0..134 : last(m) THEN CHOOSE m \in 0..134 : last(m)
      ELSE 136

\* the message of a sequence of absorbed blocks
Unpad(blocks) ==
  LET n == Len(blocks)
  IN  Concat(SubSeq(blocks, 1, n - 1)) \o SubSeq(blocks[n], 1, MarkAt(blocks[n]))

\* C10: the padding is injective: the message is recovered from the blocks
\* absorbed, and no other message of the input set yields the same blocks.
C10_Injective ==
  \A p \in Procs :
    Padded(p) =>
      /\ Unpad(absorbed[p]) = data[p]
      /\ \A m \in Msgs : m # data[p] => blocks_of(m, 0) # absorbed[p]

\* the message 0x01 has been hashed; the empty message pads to other blocks
C10_Witness ==
  /\ pc[1] = "done"
  /\ data[1] = <<1>>
  /\ Unpad(absorbed[1]) = <<1>>
  /\ absorbed[1] # blocks_of(<< >>, 0)
====
